---- MODULE Spec2Model ----
(***************************************************************************)
(* SpellTower-solver: process_dict.py (the fragment index) and st-solve.py *)
(* (word search, bonus tiles, scoring, removal with gravity, greedy loop). *)
(*                                                                         *)
(* Strings are sequences of one-character strings, so that slicing,        *)
(* concatenation, lower() and upper() are computed and not assumed.        *)
(* Coordinates are 0-based as in the source; a grid is a sequence of rows. *)
(* A GameSquare object is an identity (a positive integer) whose fields    *)
(* live in `squares`; a grid cell holds an identity or None.               *)
(***************************************************************************)
EXTENDS Integers, Sequences, FiniteSets, TLC

VARIABLES dict_words, indexed_dict, game_grid, squares, words, score, used_words, pc

vars == <<dict_words, indexed_dict, game_grid, squares, words, score, used_words, pc>>

(***************************************************************************)
(* Bounds of the model.                                                    *)
(***************************************************************************)
\* longest word list handed to process_dict
MaxDictWords == 3
\* rows and columns of the board of the greedy solver
NRows == 2
NCols == 2
\* most keys, and longest key, of an index read from indexed_dict.json by the
\* greedy solver; the longest key of an index handed to one round of search
MaxKeys == 2
MaxKeyLen == 2
SearchKeyLen == 3
\* most removed squares of a board handed to one round of search
MaxHoles == 1
\* rows and columns of the board a single word is removed from
RemoveRows == 3
RemoveCols == 2
\* rows and columns of the board a single word is scored on
BonusRows == 2
BonusCols == 3
\* most tiles of a board with an empty letter, and most blue tiles
MaxEmpty == 1
MaxBlue == 1

(***************************************************************************)
(* Generic helpers.                                                        *)
(***************************************************************************)
Range(s) == {s[i] : i \in DOMAIN s}

NoRepeat(s) == \A i, j \in DOMAIN s : i # j => s[i] # s[j]

RECURSIVE SeqsOver(_, _)
\* the duplicate-free sequences over S of length at most n
SeqsOver(S, n) ==
    IF n = 0 THEN {<<>>}
    ELSE LET shorter == SeqsOver(S, n - 1)
         IN  shorter \cup {t \in {Append(s, e) : s \in shorter, e \in S} : NoRepeat(t)}

RECURSIVE Flatten(_)
Flatten(ss) == IF ss = <<>> THEN <<>> ELSE Head(ss) \o Flatten(Tail(ss))

(***************************************************************************)
(* process_dict.py                                                         *)
(***************************************************************************)
\* d[k] = v on a Python dict
Put(d, k, v) == [x \in DOMAIN d \cup {k} |-> IF x = k THEN v ELSE d[x]]

EmptyDict == [k \in {} |-> "f"]

\* index_words recording the prefixes of two letters too: range(2, l)
FirstFragmentFromTwo == 3 - 1

\* the first prefix length index_words records: range(3, l)
FirstFragment == 3

\* the inner loop of index_words recording one prefix too many: range(3, l + 1)
FragmentStopOffByOne(l) == l + 1

\* range(3, l) stops before l
FragmentStop(l) == l

RECURSIVE index_fragments(_, _, _)
\* for i in range(3, l): one prefix per step, from i on
index_fragments(d, word, i) ==
    IF i >= FragmentStop(Len(word)) THEN d
    ELSE LET s == SubSeq(word, 1, i)
             d2 == IF s \in DOMAIN d /\ d[s] # "f"
                   THEN Put(d, s, "b")
                   ELSE Put(d, s, "f")
         IN  index_fragments(d2, word, i + 1)

\* the body of the outer loop of index_words for one word
index_word(d, word) ==
    LET d1 == IF word \in DOMAIN d
              THEN (IF d[word] # "b" THEN Put(d, word, "b") ELSE d)
              ELSE Put(d, word, "w")
    IN  index_fragments(d1, word, FirstFragment)

RECURSIVE index_words_from(_, _)
index_words_from(d, ws) ==
    IF ws = <<>> THEN d
    ELSE index_words_from(index_word(d, Head(ws)), Tail(ws))

index_words(ws) == index_words_from(EmptyDict, ws)

\* words = [i for i in json.load(fin) if len(i) > 2]
LongEnough(ws) == SelectSeq(ws, LAMBDA w : Len(w) > 2)

\* process_dict.main: the index written to indexed_dict.json
process_dict(ws) == index_words(LongEnough(ws))

(***************************************************************************)
(* st-solve.py: the board                                                  *)
(***************************************************************************)
\* a removed square
None == 0

\* grid[y][x] with the source's 0-based indices
At(grid, y, x) == grid[y + 1][x + 1]

SetAt(grid, y, x, v) == [grid EXCEPT ![y + 1][x + 1] = v]

Lower(c) == CASE c = "A" -> "a" [] c = "B" -> "b" [] OTHER -> c

Upper(c) == CASE c = "a" -> "A" [] c = "b" -> "B" [] OTHER -> c

\* str.lower() and str.upper()
lower(s) == [i \in DOMAIN s |-> Lower(s[i])]

upper(s) == [i \in DOMAIN s |-> Upper(s[i])]

\* letter_scores.json: the Scrabble values of the letters on the board
letter_scores == ("A" :> 1) @@ ("B" :> 3)

\* Word(word, locs), with the defaults of the other fields
Word(word, locs) ==
    [word |-> word, locs |-> locs, bonus_sqs |-> <<>>, bonus_locs |-> <<>>,
     bonus_letters |-> <<>>, score |-> 0]

(***************************************************************************)
(* identify_bonus                                                          *)
(***************************************************************************)
\* the squares at a sequence of locations
SquaresAt(grid, ls) == [i \in DOMAIN ls |-> At(grid, ls[i][1], ls[i][2])]

\* for square in game_grid[y]: the squares of the row kept for the bonus
blue_row(word, grid, sq, y, x) ==
    SelectSeq(grid[y + 1], LAMBDA s : s # None /\ sq[s].loc # <<y, x>>)

\* for loc in [(y-1, x), (y+1, x)] of a blue square
blue_column(word, grid, sq, y, x) ==
    SquaresAt(grid,
        SelectSeq(<< <<y - 1, x>>, <<y + 1, x>> >>,
            LAMBDA loc : /\ ~(loc[1] < 0 \/ loc[1] >= Len(grid))
                         /\ At(grid, loc[1], loc[2]) # None
                         /\ loc \notin Range(word.locs)))

\* for i in [y-1, y+1] of a square that is not blue
white_column(word, grid, sq, y, x) ==
    SquaresAt(grid,
        SelectSeq(<< <<y - 1, x>>, <<y + 1, x>> >>,
            LAMBDA loc : /\ ~(loc[1] < 0 \/ loc[1] >= Len(grid))
                         /\ loc \notin Range(word.locs)
                         /\ At(grid, loc[1], loc[2]) # None))

\* for j in [x-1, x+1] of a square that is not blue
white_row(word, grid, sq, y, x) ==
    SquaresAt(grid,
        SelectSeq(<< <<y, x - 1>>, <<y, x + 1>> >>,
            LAMBDA loc : /\ ~(loc[2] < 0 \/ loc[2] >= Len(grid[1]))
                         /\ At(grid, loc[1], loc[2]) # None
                         /\ loc \notin Range(word.locs)))

\* the body of "for wloc in word.locs": what one square of the word adds to blocs
bonus_of(word, grid, sq, wloc) ==
    LET y == wloc[1]
        x == wloc[2]
        wsquare == sq[At(grid, y, x)]
    IN  IF wsquare.behaviour = "blue"
        THEN blue_row(word, grid, sq, y, x) \o blue_column(word, grid, sq, y, x)
        ELSE IF Len(word.word) < 5
        THEN <<>>
        ELSE white_column(word, grid, sq, y, x) \o white_row(word, grid, sq, y, x)

\* bonus_letters with the word appended whether or not there are bonus letters
bonus_letters_always_with_word(word, sq, blocs) ==
    Flatten([i \in DOMAIN blocs |-> sq[blocs[i]].letter]) \o word.word

\* bonus_letters: the letters of the bonus squares, then the word when there are any
bonus_letters_of(word, sq, blocs) ==
    LET joined == Flatten([i \in DOMAIN blocs |-> sq[blocs[i]].letter])
    IN  IF Len(joined) # 0 THEN joined \o word.word ELSE joined

identify_bonus(word, grid, sq) ==
    LET blocs == Flatten([i \in DOMAIN word.locs |-> bonus_of(word, grid, sq, word.locs[i])])
    IN  [word EXCEPT !.bonus_sqs = blocs,
                     !.bonus_locs = [i \in DOMAIN blocs |-> sq[blocs[i]].loc],
                     !.bonus_letters = bonus_letters_of(word, sq, blocs)]

(***************************************************************************)
(* calc_score                                                              *)
(***************************************************************************)
RECURSIVE sum_scores(_, _)
\* for c in s: total += score_dict[c]
sum_scores(s, score_dict) ==
    IF s = <<>> THEN 0 ELSE score_dict[Head(s)] + sum_scores(Tail(s), score_dict)

calc_score(word, score_dict) ==
    (sum_scores(upper(word.word), score_dict)
       + sum_scores(upper(word.bonus_letters), score_dict)) * Len(word.word)

\* finished_word = identify_bonus(...); finished_word.score = calc_score(...)
scored(word, grid, sq) ==
    LET w == identify_bonus(word, grid, sq)
    IN  [w EXCEPT !.score = calc_score(w, letter_scores)]

\* the same two lines applied to every word a recursive call yields
rescored(ws, grid, sq) == [i \in DOMAIN ws |-> scored(ws[i], grid, sq)]

(***************************************************************************)
(* identify_words                                                          *)
(***************************************************************************)
\* for i in range(y-1, y+2): for j in range(x-1, x+2), in the order of the loops
Neighbours(y, x) ==
    << <<y - 1, x - 1>>, <<y - 1, x>>, <<y - 1, x + 1>>,
       <<y, x - 1>>,     <<y, x>>,     <<y, x + 1>>,
       <<y + 1, x - 1>>, <<y + 1, x>>, <<y + 1, x + 1>> >>

\* the loops without "if (i,j) in current_locs: continue"
Skipped_revisiting(grid, sq, c, current_locs) ==
    \/ c[1] < 0 \/ c[1] >= Len(grid)
    \/ c[2] < 0 \/ c[2] >= Len(grid[1])
    \/ At(grid, c[1], c[2]) = None
    \/ lower(sq[At(grid, c[1], c[2])].letter) = <<>>

\* the squares the loops skip before the dictionary is consulted
Skipped(grid, sq, c, current_locs) ==
    \/ c[1] < 0 \/ c[1] >= Len(grid)
    \/ c[2] < 0 \/ c[2] >= Len(grid[1])
    \/ c \in Range(current_locs)
    \/ At(grid, c[1], c[2]) = None
    \/ lower(sq[At(grid, c[1], c[2])].letter) = <<>>

RECURSIVE identify_words_from(_, _, _, _, _, _, _)
\* the words yielded from the k-th neighbour of start on, in the order they are yielded
identify_words_from(grid, sq, start, fragments_dict, current_word, current_locs, k) ==
    IF k > 9 THEN <<>>
    ELSE
      LET c == Neighbours(start[1], start[2])[k]
          rest == identify_words_from(grid, sq, start, fragments_dict,
                                      current_word, current_locs, k + 1)
      IN  IF Skipped(grid, sq, c, current_locs) THEN rest
          ELSE
            LET letter == lower(sq[At(grid, c[1], c[2])].letter)
                new_word == current_word \o letter
                locs == Append(current_locs, c)
                finished_word == scored(Word(new_word, locs), grid, sq)
                deeper == rescored(identify_words_from(grid, sq, c, fragments_dict,
                                                       new_word, locs, 1), grid, sq)
            IN  IF new_word \notin DOMAIN fragments_dict THEN rest
                ELSE IF fragments_dict[new_word] = "w" THEN <<finished_word>> \o rest
                ELSE IF fragments_dict[new_word] = "b"
                     THEN deeper \o <<finished_word>> \o rest
                ELSE deeper \o rest

identify_words(grid, sq, start, fragments_dict, current_word, current_locs) ==
    identify_words_from(grid, sq, start, fragments_dict, current_word, current_locs, 1)

(***************************************************************************)
(* remove_word                                                             *)
(***************************************************************************)
\* remove_word clearing the bonus squares only
vacate_bonus_only(word, grid) ==
    [y \in DOMAIN grid |->
        [x \in DOMAIN grid[y] |->
            IF <<y - 1, x - 1>> \in Range(word.bonus_locs) THEN None ELSE grid[y][x]]]

\* grid[y][x] = None for the word's squares and for its bonus squares
vacate(word, grid) ==
    [y \in DOMAIN grid |->
        [x \in DOMAIN grid[y] |->
            IF <<y - 1, x - 1>> \in Range(word.locs) \cup Range(word.bonus_locs)
            THEN None
            ELSE grid[y][x]]]

\* a switch that leaves the moved square's loc as it was
relocate_forgotten(sqs, moved, y, x) == sqs

\* grid[y][x].loc = (y, x) after the switch
relocate(sqs, moved, y, x) == [sqs EXCEPT ![moved].loc = <<y, x>>]

RECURSIVE sweep(_, _, _)
\* for y in range(1, len(grid)): one pass down column x, from row y on
sweep(st, x, y) ==
    IF y >= Len(st.grid) THEN st
    ELSE IF At(st.grid, y, x) = None /\ At(st.grid, y - 1, x) # None
    THEN LET moved == At(st.grid, y - 1, x)
             swapped == SetAt(SetAt(st.grid, y, x, moved), y - 1, x, None)
         IN  sweep([grid |-> swapped,
                    squares |-> relocate(st.squares, moved, y, x),
                    repeat |-> TRUE], x, y + 1)
    ELSE sweep(st, x, y + 1)

\* a single pass down column x instead of passes until nothing moves
settle_once(st, x) == sweep([st EXCEPT !.repeat = FALSE], x, 1)

RECURSIVE settle(_, _)
\* while repeat: passes down column x until one makes no switch
settle(st, x) ==
    LET after == sweep([st EXCEPT !.repeat = FALSE], x, 1)
    IN  IF after.repeat THEN settle(after, x) ELSE after

RECURSIVE settle_columns(_, _)
\* for x in range(len(grid[0])), from column x on
settle_columns(st, x) ==
    IF x >= Len(st.grid[1]) THEN st
    ELSE settle_columns(settle(st, x), x + 1)

\* the grid and the squares after remove_word(word, grid)
remove_word(word, grid, sq) ==
    settle_columns([grid |-> vacate(word, grid), squares |-> sq, repeat |-> TRUE], 0)

(***************************************************************************)
(* main of st-solve.py                                                     *)
(***************************************************************************)
\* the cells of a grid in the order of "for y ...: for x ..."
RowMajor(grid) ==
    [i \in 1..(Len(grid) * Len(grid[1])) |->
        <<(i - 1) \div Len(grid[1]), (i - 1) % Len(grid[1])>>]

\* the words of one round, before they are sorted
collect_words(grid, sq, fragments_dict) ==
    LET cells == RowMajor(grid)
    IN  Flatten([i \in DOMAIN cells |->
            LET y == cells[i][1]
                x == cells[i][2]
            IN  IF At(grid, y, x) # None
                THEN identify_words(grid, sq, <<y, x>>, fragments_dict,
                                    lower(sq[At(grid, y, x)].letter), << <<y, x>> >>)
                ELSE <<>>])

\* an insertion that puts a word before the words of the same score
insert_before_ties(sorted, w) ==
    LET n == Cardinality({i \in DOMAIN sorted : sorted[i].score > w.score})
    IN  SubSeq(sorted, 1, n) \o <<w>> \o SubSeq(sorted, n + 1, Len(sorted))

\* one insertion of a stable sort by descending score
insert_by_score(sorted, w) ==
    LET n == Cardinality({i \in DOMAIN sorted : sorted[i].score >= w.score})
    IN  SubSeq(sorted, 1, n) \o <<w>> \o SubSeq(sorted, n + 1, Len(sorted))

RECURSIVE sort_by_score(_)
\* words.sort(key=lambda x: x.score, reverse=True)
sort_by_score(ws) ==
    IF ws = <<>> THEN <<>>
    ELSE insert_by_score(sort_by_score(SubSeq(ws, 1, Len(ws) - 1)), ws[Len(ws)])

(***************************************************************************)
(* Inputs                                                                  *)
(***************************************************************************)
\* the word lists handed to process_dict: "ab" is dropped as too short, the
\* others share prefixes of every kind (a word, a prefix, both)
DictWordPool ==
    { <<"a", "b">>,
      <<"a", "b", "a">>,
      <<"a", "b", "a", "b">>,
      <<"a", "b", "a", "b", "a">>,
      <<"a", "b", "b">>,
      <<"a", "b", "b", "a">> }

DictWordLists == SeqsOver(DictWordPool, MaxDictWords)

RECURSIVE SubsetsUpTo(_, _)
\* the subsets of S with at most n elements
SubsetsUpTo(S, n) ==
    IF n = 0 THEN {{}}
    ELSE LET smaller == SubsetsUpTo(S, n - 1)
         IN  smaller \cup {K \cup {e} : K \in smaller, e \in S}

\* the strings an index may hold as keys
Keys(len) == UNION {[1..n -> {"a", "b"}] : n \in 1..len}

Tags == {"f", "w", "b"}

\* indexed_dict.json written by anything: any mapping of at most MaxKeys keys
ArbitraryIndices(len) == UNION {[K -> Tags] : K \in SubsetsUpTo(Keys(len), MaxKeys)}

\* indexed_dict.json written by process_dict
BuiltIndices == {process_dict(ws) : ws \in DictWordLists}

\* the letters tesseract reads on a tile; the empty string is a tile it could not read
TileLetters == {<<>>, <<"A">>, <<"B">>}

\* populate_grid: square (y, x) of an h x w grid is object y * w + x + 1
populated_grid(h, w) == [y \in 1..h |-> [x \in 1..w |-> (y - 1) * w + x]]

\* GameSquare(letter=letter, behaviour=behaviour, loc=(y, x))
GameSquare(letter, behaviour, loc) ==
    [letter |-> letter, behaviour |-> behaviour, loc |-> loc]

\* the squares populate_grid builds for an h x w image, with at most e unread
\* tiles and at most b blue ones
populated_squares(h, w, behaviours, e, b) ==
    { [id \in 1..(h * w) |->
          GameSquare(t[id][1], t[id][2], <<(id - 1) \div w, (id - 1) % w>>)] :
      t \in { u \in [1..(h * w) -> TileLetters \X behaviours] :
                /\ Cardinality({id \in 1..(h * w) : u[id][1] = <<>>}) <= e
                /\ Cardinality({id \in 1..(h * w) : u[id][2] = "blue"}) <= b } }

(***************************************************************************)
(* process_dict.py as a program                                            *)
(***************************************************************************)
InitDict ==
    /\ pc = "dict"
    /\ dict_words \in DictWordLists
    /\ indexed_dict = EmptyDict
    /\ game_grid = <<>>
    /\ squares = <<>>
    /\ words = <<>>
    /\ score = 0
    /\ used_words = <<>>

\* main of process_dict.py
ProcessDict ==
    /\ pc = "dict"
    /\ indexed_dict' = process_dict(dict_words)
    /\ pc' = "indexed"
    /\ UNCHANGED <<dict_words, game_grid, squares, words, score, used_words>>

NextDict == ProcessDict

SpecDict == InitDict /\ [][NextDict]_vars

(***************************************************************************)
(* st-solve.py as a program: the greedy loop of main                       *)
(***************************************************************************)
Init ==
    /\ pc = "scan"
    /\ dict_words = <<>>
    /\ indexed_dict \in ArbitraryIndices(MaxKeyLen) \cup BuiltIndices
    /\ game_grid = populated_grid(NRows, NCols)
    /\ squares \in populated_squares(NRows, NCols, {"white", "blue"}, MaxEmpty, MaxBlue)
    /\ words = <<1>>
    /\ score = 0
    /\ used_words = <<>>

\* lines 625-633: the words of the round, sorted
Scan ==
    /\ pc = "scan"
    /\ Len(words) > 0
    /\ words' = sort_by_score(collect_words(game_grid, squares, indexed_dict))
    /\ pc' = "sorted"
    /\ UNCHANGED <<dict_words, indexed_dict, game_grid, squares, score, used_words>>

\* lines 635-644: the best word is played
Commit ==
    /\ pc = "sorted"
    /\ Len(words) > 0
    /\ score' = score + words[1].score
    /\ used_words' = Append(used_words, words[1].word)
    /\ LET after == remove_word(words[1], game_grid, squares)
       IN  /\ game_grid' = after.grid
           /\ squares' = after.squares
    /\ pc' = "scan"
    /\ UNCHANGED <<dict_words, indexed_dict, words>>

\* no word was found: the loop ends and the result is printed
Finish ==
    /\ pc = "sorted"
    /\ ~(Len(words) > 0)
    /\ pc' = "done"
    /\ UNCHANGED <<dict_words, indexed_dict, game_grid, squares, words, score, used_words>>

Next == Scan \/ Commit \/ Finish

Spec == Init /\ [][Next]_vars

(***************************************************************************)
(* One round of search on any board: identify_words from every cell        *)
(***************************************************************************)
\* the grids of h x w squares of which at most n were removed
grids_with_holes(h, w, n) ==
    { [y \in 1..h |-> [x \in 1..w |->
          IF (y - 1) * w + x \in H THEN None ELSE (y - 1) * w + x]] :
      H \in SubsetsUpTo(1..(h * w), n) }

InitSearch ==
    /\ pc = "scan"
    /\ dict_words = <<>>
    /\ indexed_dict \in ArbitraryIndices(SearchKeyLen)
    /\ game_grid \in grids_with_holes(NRows, NCols, MaxHoles)
    /\ squares \in populated_squares(NRows, NCols, {"white"}, MaxEmpty, 0)
    \* a removed square is no longer on the grid: its letter is of no account
    /\ \A id \in DOMAIN squares :
          id \notin UNION {Range(game_grid[y]) : y \in DOMAIN game_grid} =>
              squares[id].letter = <<"A">>
    /\ words = <<1>>
    /\ score = 0
    /\ used_words = <<>>

NextSearch == Scan

SpecSearch == InitSearch /\ [][NextSearch]_vars

(***************************************************************************)
(* One word scored on any full board: identify_bonus, then calc_score      *)
(***************************************************************************)
\* the cells of a grid that hold a square
Occupied(grid) ==
    {c \in Range(RowMajor(grid)) : At(grid, c[1], c[2]) # None}

Adjacent(c, d) ==
    /\ c # d
    /\ c[1] - d[1] \in {-1, 0, 1}
    /\ c[2] - d[2] \in {-1, 0, 1}

RECURSIVE Paths(_, _, _)
\* the paths of at most n squares main and identify_words follow on a grid:
\* from any square, then over neighbouring squares that have a letter
Paths(grid, sq, n) ==
    IF n <= 1 THEN {<<c>> : c \in Occupied(grid)}
    ELSE LET shorter == Paths(grid, sq, n - 1)
             longer == {Append(p, c) : p \in shorter, c \in Occupied(grid)}
         IN  shorter \cup
             {q \in longer : /\ Adjacent(q[Len(q) - 1], q[Len(q)])
                             /\ NoRepeat(q)
                             /\ sq[At(grid, q[Len(q)][1], q[Len(q)][2])].letter # <<>>}

\* current_word + letter along a path, as main and identify_words build it
word_along(grid, sq, p) ==
    Flatten([i \in DOMAIN p |-> lower(sq[At(grid, p[i][1], p[i][2])].letter)])

InitBonus ==
    /\ pc = "found"
    /\ dict_words = <<>>
    /\ indexed_dict = EmptyDict
    /\ game_grid = populated_grid(BonusRows, BonusCols)
    /\ squares \in populated_squares(BonusRows, BonusCols, {"white", "blue"}, MaxEmpty, MaxBlue)
    /\ words = <<>>
    /\ score = 0
    /\ used_words = <<>>

\* lines 367-370: a word identify_words has found is given its bonus and its score
ScoreWord ==
    /\ pc = "found"
    /\ \E p \in Paths(game_grid, squares, BonusRows * BonusCols) :
          /\ Len(p) >= 2
          /\ words' = <<scored(Word(word_along(game_grid, squares, p), p), game_grid, squares)>>
    /\ pc' = "scored"
    /\ UNCHANGED <<dict_words, indexed_dict, game_grid, squares, score, used_words>>

NextBonus == ScoreWord

SpecBonus == InitBonus /\ [][NextBonus]_vars

(***************************************************************************)
(* One word removed from any board: remove_word                            *)
(***************************************************************************)
RECURSIVE AsSeq(_)
\* the elements of a set of cells, as a list without repeats
AsSeq(S) ==
    IF S = {} THEN <<>>
    ELSE LET c == CHOOSE e \in S : \A d \in S : e[1] < d[1] \/ (e[1] = d[1] /\ e[2] <= d[2])
         IN  <<c>> \o AsSeq(S \ {c})

InitRemove ==
    /\ pc = "word"
    /\ dict_words = <<>>
    /\ indexed_dict = EmptyDict
    /\ game_grid \in grids_with_holes(RemoveRows, RemoveCols, RemoveRows * RemoveCols)
    /\ squares = [id \in 1..(RemoveRows * RemoveCols) |->
                     GameSquare(<<"A">>, "white",
                                <<(id - 1) \div RemoveCols, (id - 1) % RemoveCols>>)]
    \* a word and its bonus: squares of the grid, a word having at least one
    /\ \E L, B \in SUBSET Occupied(game_grid) :
          /\ L # {}
          /\ words = <<[Word(<<>>, AsSeq(L)) EXCEPT !.bonus_locs = AsSeq(B)]>>
    /\ score = 0
    /\ used_words = <<>>

\* line 642: game_grid = remove_word(words[0], game_grid)
RemoveWord ==
    /\ pc = "word"
    /\ LET after == remove_word(words[1], game_grid, squares)
       IN  /\ game_grid' = after.grid
           /\ squares' = after.squares
    /\ pc' = "removed"
    /\ UNCHANGED <<dict_words, indexed_dict, words, score, used_words>>

NextRemove == RemoveWord

SpecRemove == InitRemove /\ [][NextRemove]_vars

(***************************************************************************)
(* Claims about process_dict.py                                            *)
(***************************************************************************)
\* the words index_words is given: those of the list with three letters or more
IndexedWords(ws) == {w \in Range(ws) : Len(w) >= 3}

IsStrictPrefixIn(k, W) == \E w \in W : Len(w) > Len(k) /\ SubSeq(w, 1, Len(k)) = k

ReferenceKeys(W) == W \cup UNION {{SubSeq(w, 1, i) : i \in 3..(Len(w) - 1)} : w \in W}

ReferenceTag(k, W) ==
    IF k \in W /\ IsStrictPrefixIn(k, W) THEN "b"
    ELSE IF IsStrictPrefixIn(k, W) THEN "f"
    ELSE "w"

C8_LocMatchesCell ==
    /\ \A c \in Occupied(game_grid) : squares[At(game_grid, c[1], c[2])].loc = c
    /\ \A c, d \in Occupied(game_grid) :
           At(game_grid, c[1], c[2]) = At(game_grid, d[1], d[2]) => c = d

\* a word was played and a square has fallen to another cell than it started in
C8_Witness ==
    /\ used_words # <<>>
    /\ \E c \in Occupied(game_grid) :
           At(game_grid, c[1], c[2]) # At(populated_grid(NRows, NCols), c[1], c[2])

\* C9: no word of a round has a square with an empty letter on its path, the
\* first square included, so that a word has as many letters as squares.
C9_NoEmptyLetterOnPath ==
    pc = "sorted" =>
        \A i \in DOMAIN words :
            /\ \A j \in DOMAIN words[i].locs :
                   squares[At(game_grid, words[i].locs[j][1], words[i].locs[j][2])].letter # <<>>
            /\ Len(words[i].word) = Len(words[i].locs)

\* what is left of the loop: the occupied cells, and the rest of the round
Remaining ==
    2 * Cardinality(Occupied(game_grid))
      + (IF pc = "scan" THEN 2 ELSE IF pc = "sorted" THEN 1 ELSE 0)

RemainingNext ==
    2 * Cardinality(Occupied(game_grid'))
      + (IF pc' = "scan" THEN 2 ELSE IF pc' = "sorted" THEN 1 ELSE 0)

\* C10: a round that plays a word leaves fewer occupied cells, so there are at
\* most NRows * NCols such rounds; the loop goes on after a round that found a
\* word and ends after the first round that found none; every step brings the
\* loop nearer its end, and the loop is entered again only with the words that
\* let it run ("while len(words) > 0").
C10_LoopTerminates ==
    /\ [][pc = "sorted" /\ pc' = "scan" =>
            Cardinality(Occupied(game_grid')) < Cardinality(Occupied(game_grid))]_vars
    /\ [][RemainingNext < Remaining]_vars
    /\ [][pc = "sorted" => IF words = <<>> THEN pc' = "done" ELSE pc' = "scan"]_vars
    /\ [][Len(used_words') + Cardinality(Occupied(game_grid')) <= NRows * NCols]_vars
    /\ [][pc' = "done" => words' = <<>>]_vars
    /\ [][pc' \in {"sorted", "done"} \/ (pc' = "scan" /\ Len(words') > 0)]_vars

\* the loop has ended after two rounds that played a word
C10_Witness == pc = "done" /\ Len(used_words) = 2

(***************************************************************************)
(* Claims about identify_words                                             *)
(***************************************************************************)
\* the occupied cells whose square has a letter
LetteredCells(grid, sq) ==
    {c \in Occupied(grid) : sq[At(grid, c[1], c[2])].letter # <<>>}

RECURSIVE WalksFrom(_, _, _, _)
\* the walks of at most n cells from start over lettered cells, each cell a
\* neighbour of the one before and none met twice
WalksFrom(grid, sq, start, n) ==
    IF n <= 1 THEN {<<start>>}
    ELSE LET shorter == WalksFrom(grid, sq, start, n - 1)
             longer == {Append(p, c) : p \in shorter, c \in LetteredCells(grid, sq)}
         IN  shorter \cup
             {q \in longer : Adjacent(q[Len(q) - 1], q[Len(q)]) /\ NoRepeat(q)}

\* the lowercase letters along a walk
TextAlong(grid, sq, p) ==
    Flatten([i \in DOMAIN p |-> lower(sq[At(grid, p[i][1], p[i][2])].letter)])

\* a walk spells a word of the index through prefixes the index lets grow
Spells(grid, sq, fragments_dict, p) ==
    LET text == TextAlong(grid, sq, p)
    IN  /\ \A n \in 2..(Len(text) - 1) :
              /\ SubSeq(text, 1, n) \in DOMAIN fragments_dict
              /\ fragments_dict[SubSeq(text, 1, n)] \in {"f", "b"}
        /\ text \in DOMAIN fragments_dict
        /\ fragments_dict[text] \in {"w", "b"}

\* the words of the round found from start, as pairs (text, path)
YieldedFrom(start) == SelectSeq(words, LAMBDA w : w.locs[1] = start)

Pairs(ws) == {<<ws[i].word, ws[i].locs>> : i \in DOMAIN ws}

C4_BonusDisjointFromPath ==
    (pc = "scored" /\ \A id \in DOMAIN squares : squares[id].letter # <<>>) =>
        /\ Range(words[1].bonus_locs) \cap Range(words[1].locs) = {}
        /\ Range(words[1].bonus_sqs) \cap
             {At(game_grid, c[1], c[2]) : c \in Range(words[1].locs)} = {}

\* C5: the bonus of a scored word is deduplicated: no cell appears twice in
\* bonus_locs and no square gives its letter twice to bonus_letters (stated for
\* the boards whose squares all have a letter).
C5_BonusDeduplicated ==
    (pc = "scored" /\ \A id \in DOMAIN squares : squares[id].letter # <<>>) =>
        /\ NoRepeat(words[1].bonus_locs)
        /\ NoRepeat(words[1].bonus_sqs)

\* the value of a string, letter by letter of the alphabet
ValueOf(s) ==
    letter_scores["A"] * Cardinality({i \in DOMAIN s : s[i] \in {"A", "a"}})
      + letter_scores["B"] * Cardinality({i \in DOMAIN s : s[i] \in {"B", "b"}})

\* the letters of the bonus squares of a word, in the order of bonus_sqs
BonusTileLetters(w) == Flatten([i \in DOMAIN w.bonus_sqs |-> squares[w.bonus_sqs[i]].letter])

Column(grid, x) == [y \in 1..Len(grid) |-> At(grid, y - 1, x)]

\* the squares of column x that the word leaves in place, from the top row down
Survivors(grid, word, x) ==
    LET kept == SelectSeq([y \in 1..Len(grid) |-> <<y - 1, x>>],
                    LAMBDA c : /\ At(grid, c[1], c[2]) # None
                               /\ c \notin Range(word.locs) \cup Range(word.bonus_locs))
    IN  [i \in DOMAIN kept |-> At(grid, kept[i][1], kept[i][2])]

\* C7: after remove_word the removed cells of every column are the topmost
\* ones, and below them stand, in their order, exactly the squares that were in
\* that column and neither on the word's path nor in its bonus.
C7_ColumnsSettle ==
    [][pc' = "removed" =>
        \A x \in 0..(Len(game_grid[1]) - 1) :
            LET before == Survivors(game_grid, words[1], x)
                after == Column(game_grid', x)
            IN  /\ SelectSeq(after, LAMBDA s : s # None) = before
                /\ \A y \in DOMAIN after :
                      after[y] = None <=> y <= Len(after) - Len(before)]_vars

\* a word was removed and a square has fallen two rows
C7_Witness ==
    /\ pc = "removed"
    /\ \E c \in Occupied(game_grid) :
          c[1] - ((At(game_grid, c[1], c[2]) - 1) \div RemoveCols) >= 2
    /\ \E c \in Range(RowMajor(game_grid)) : At(game_grid, c[1], c[2]) = None

(***************************************************************************)
(* Claims about the choice of the word played                              *)
(***************************************************************************)
\* the words of the round in the order main finds them: start cells row by
\* row, and from each start in the order identify_words yields
FoundInOrder == collect_words(game_grid, squares, indexed_dict)

\* the first word found among those of the highest score
FirstBest(found) ==
    LET top == CHOOSE i \in DOMAIN found :
                   \A j \in DOMAIN found : found[j].score <= found[i].score
        first == CHOOSE i \in DOMAIN found :
                   /\ found[i].score = found[top].score
                   /\ \A j \in 1..(i - 1) : found[j].score < found[top].score
    IN  found[first]

\* the number of times a word stands in a list
Times(ws, w) == Cardinality({i \in DOMAIN ws : ws[i] = w})

\* C11: a round that found words plays exactly one, the first found among
\* those of the highest score of the round: the total grows by its score and
\* used_words by its text; no other step touches the total or the list, which
\* start at 0 and empty, so that at the end the total is the sum of the scores
\* played and the list has one text for each round that played.
C11_PlaysFirstBest ==
    /\ [][(pc = "sorted" /\ Len(words) > 0) =>
            LET found == FoundInOrder
                played == FirstBest(found)
            IN  /\ pc' = "scan"
                /\ Len(words) = Len(found)
                /\ \A i \in DOMAIN found : Times(words, found[i]) = Times(found, found[i])
                /\ \A i \in DOMAIN found : found[i].score <= played.score
                /\ words[1] = played
                /\ score' = score + played.score
                /\ used_words' = Append(used_words, played.word)
                /\ game_grid' = remove_word(played, game_grid, squares).grid]_vars
    /\ [][pc' # "scan" => (score' = score /\ used_words' = used_words)]_vars
    /\ [][(pc = "scan" /\ used_words = <<>>) => score = 0]_vars
    /\ [][pc' = "done" => (pc = "sorted" /\ words = <<>>)]_vars

\* the squares as they were read from the image, each at the cell of its id
SquaresAsRead ==
    [id \in DOMAIN squares |->
        [squares[id] EXCEPT !.loc = <<(id - 1) \div NCols, (id - 1) % NCols>>]]

\* the first round played a word that shares the highest score with another
\* word found after it, and that was not the first word found; every word of
\* the round has a letter on each square of its path
C11_Witness ==
    /\ pc = "scan"
    /\ Len(used_words) = 1
    /\ Len(words) >= 3
    /\ used_words[1] = words[1].word
    /\ score = words[1].score
    /\ words[2].score = words[1].score
    /\ words[2].word # words[1].word
    /\ \A i \in DOMAIN words : Len(words[i].word) = Len(words[i].locs)
    /\ LET found == collect_words(populated_grid(NRows, NCols), SquaresAsRead, indexed_dict)
       IN  /\ Len(found) = Len(words)
           /\ found[1].score < words[1].score
           /\ words[1] = FirstBest(found)

====
